---- MODULE Spec2Model ----
(***************************************************************************)
(* A model of bot.py: the Discogs caption bot.                             *)
(*                                                                         *)
(* Python strings are sequences of one-character strings.  JSON values     *)
(* (the payloads Discogs returns) are tagged records [t, v]; a dict is a   *)
(* function from its keys, so an absent key and a null value differ, as    *)
(* they do for dict.get(key, default).  An exception leaving a function is *)
(* the value Raised.                                                       *)
(***************************************************************************)
EXTENDS Integers, Sequences, FiniteSets, TLC

VARIABLES
    pc,       \* position of the running call or handler
    args,     \* arguments of the pure function under check
    ret,      \* its return value (or Raised)
    msg,      \* handle: the stripped text of the incoming message
    typ,      \* handle: entity type found by extract_id
    did,      \* handle: id found by extract_id
    master,   \* get_master: the master payload m
    data,     \* handle: the payload the Discogs fetch returned
    caption,  \* handle: the caption build_caption returned
    sent,     \* handle: the replies sent, in order
    calls     \* handle: the external calls made, in order, with their outcome

vars == <<pc, args, ret, msg, typ, did, master, data, caption, sent, calls>>

----------------------------------------------------------------------------
(* Python values *)

JNull == [t |-> "null", v |-> <<>>]
JStr(s) == [t |-> "str", v |-> s]
JInt(n) == [t |-> "int", v |-> n]
JList(l) == [t |-> "list", v |-> l]
JDict(d) == [t |-> "dict", v |-> d]
Raised == [t |-> "raise", v |-> <<>>]

NoKeys == <<>>

\* bool(x)
Truthy(j) ==
    CASE j.t = "null" -> FALSE
      [] j.t = "int" -> j.v /= 0
      [] j.t = "dict" -> DOMAIN j.v /= {}
      [] OTHER -> Len(j.v) > 0

\* d.get(k)
Get(d, k) == IF k \in DOMAIN d.v THEN d.v[k] ELSE JNull

\* d.get(k, default)
GetDefault(d, k, default) == IF k \in DOMAIN d.v THEN d.v[k] ELSE default

\* x or y
Or(x, y) == IF Truthy(x) THEN x ELSE y

----------------------------------------------------------------------------
(* str methods and the character classes of re *)

UpperAZ == <<"A","B","C","D","E","F","G","H","I","J","K","L","M",
             "N","O","P","Q","R","S","T","U","V","W","X","Y","Z">>
LowerAZ == <<"a","b","c","d","e","f","g","h","i","j","k","l","m",
             "n","o","p","q","r","s","t","u","v","w","x","y","z">>
Digits == <<"0","1","2","3","4","5","6","7","8","9">>

Range(s) == {s[i] : i \in 1..Len(s)}

IsDigit(c) == c \in Range(Digits)
IsAlnum(c) == c \in Range(UpperAZ) \cup Range(LowerAZ) \cup Range(Digits)
IsSpace(c) == c \in {" ", "\t", "\n", "\r"}

LowerChar(c) ==
    IF c \in Range(UpperAZ)
    THEN LowerAZ[CHOOSE i \in 1..Len(UpperAZ) : UpperAZ[i] = c]
    ELSE c

\* s.lower()
Lower(s) == [i \in 1..Len(s) |-> LowerChar(s[i])]

\* needle in hay
Contains(hay, needle) ==
    \E i \in 0..(Len(hay) - Len(needle)) :
        SubSeq(hay, i + 1, i + Len(needle)) = needle

\* s.strip()
Strip(s) ==
    LET keep == {i \in 1..Len(s) : ~IsSpace(s[i])}
    IN IF keep = {} THEN <<>>
       ELSE SubSeq(s, CHOOSE i \in keep : \A j \in keep : i <= j,
                      CHOOSE i \in keep : \A j \in keep : j <= i)

\* s.isdigit()
IsDigitStr(s) == Len(s) > 0 /\ \A i \in 1..Len(s) : IsDigit(s[i])

RECURSIVE Join(_, _)
\* sep.join(parts)
Join(sep, parts) ==
    IF parts = <<>> THEN <<>>
    ELSE IF Len(parts) = 1 THEN parts[1]
    ELSE parts[1] \o sep \o Join(sep, Tail(parts))

RECURSIVE NatToStr(_)
NatToStr(n) ==
    IF n < 10 THEN <<Digits[n + 1]>>
    ELSE NatToStr(n \div 10) \o <<Digits[(n % 10) + 1]>>

\* str(n)
IntToStr(n) == IF n < 0 THEN <<"-">> \o NatToStr(0 - n) ELSE NatToStr(n)

DigitVal(c) == (CHOOSE i \in 1..10 : Digits[i] = c) - 1

RECURSIVE StrToInt(_)
\* int(s), s a run of digits
StrToInt(s) ==
    IF s = <<>> THEN 0
    ELSE 10 * StrToInt(SubSeq(s, 1, Len(s) - 1)) + DigitVal(s[Len(s)])

\* the characters of the ASCII words used below
W_producer == <<"p","r","o","d","u","c","e","r">>
W_engineer == <<"e","n","g","i","n","e","e","r">>
W_mix == <<"m","i","x">>
W_record == <<"r","e","c","o","r","d">>
W_master == <<"m","a","s","t","e","r">>
W_sound == <<"s","o","u","n","d">>

----------------------------------------------------------------------------
(* extract_roles *)

RECURSIVE Dedup(_)
\* list(dict.fromkeys(out))
Dedup(out) ==
    IF out = <<>> THEN <<>>
    ELSE LET init == Dedup(SubSeq(out, 1, Len(out) - 1))
             last == out[Len(out)]
         IN IF last \in Range(init) THEN init ELSE Append(init, last)

\* role = (p.get("role") or "").lower()
RoleOf(p) == Lower(Or(Get(p, "role"), JStr(<<>>)).v)

\* name = p.get("name") or ""
NameOf(p) == Or(Get(p, "name"), JStr(<<>>)).v

\* any(k in role for k in keywords)
RoleMatches(p, keywords) ==
    \E i \in 1..Len(keywords) : Contains(RoleOf(p), keywords[i])

RECURSIVE CollectNames(_, _)
CollectNames(entries, keywords) ==
    IF entries = <<>> THEN <<>>
    ELSE (IF RoleMatches(Head(entries), keywords)
          THEN <<NameOf(Head(entries))>> ELSE <<>>)
         \o CollectNames(Tail(entries), keywords)

extract_roles_nodedup(extra, keywords) ==
    IF ~Truthy(extra) THEN <<>> ELSE CollectNames(extra.v, keywords)

extract_roles(extra, keywords) ==
    IF ~Truthy(extra) THEN <<>>
    ELSE Dedup(CollectNames(extra.v, keywords))

ProducerKeywords == <<W_producer>>
EngineerKeywords == <<W_engineer, W_mix, W_record, W_master, W_sound>>

----------------------------------------------------------------------------
(* hashtags *)

\* re.sub(r"[^A-Za-z0-9]+", "", x)
StripNonAlnum(x) == SelectSeq(x, IsAlnum)

RECURSIVE TagTokens(_)
\* "#" + re.sub(...) for x in (g + s) if x.strip()
TagTokens(entries) ==
    IF entries = <<>> THEN <<>>
    ELSE (IF Strip(Head(entries).v) /= <<>>
          THEN <<(<<"#">> \o StripNonAlnum(Head(entries).v))>> ELSE <<>>)
         \o TagTokens(Tail(entries))

\* g = data.get("genres") or []; s = data.get("styles") or []
TagEntries(d) ==
    Or(Get(d, "genres"), JList(<<>>)).v \o Or(Get(d, "styles"), JList(<<>>)).v

hashtags(d) ==
    LET entries == TagEntries(d)
    IN IF \E i \in 1..Len(entries) : entries[i].t /= "str"
       THEN Raised  \* x.strip() on None: AttributeError
       ELSE JStr(Join(<<" ">>, TagTokens(entries)))

----------------------------------------------------------------------------
(* choose_track *)

W_track == <<"t","r","a","c","k">>

\* the least j >= i with s[j] not white space, Len(s) + 1 if none
SkipSpace(s, i) ==
    LET stop == {j \in i..Len(s) : ~IsSpace(s[j])} \cup {Len(s) + 1}
    IN CHOOSE j \in stop : \A k \in stop : j <= k

\* the least j >= i with s[j] not a digit, Len(s) + 1 if none
SkipDigits(s, i) ==
    LET stop == {j \in i..Len(s) : ~IsDigit(s[j])} \cup {Len(s) + 1}
    IN CHOOSE j \in stop : \A k \in stop : j <= k

\* m = re.match(r"track\s*:\s*(\d+)", hint, re.I): m.group(1), or None
IndexHint(hint) ==
    IF Len(hint) < 5 \/ Lower(SubSeq(hint, 1, 5)) /= W_track THEN JNull
    ELSE LET colon == SkipSpace(hint, 6)
         IN IF colon > Len(hint) \/ hint[colon] /= ":" THEN JNull
            ELSE LET first == SkipSpace(hint, colon + 1)
                     past == SkipDigits(hint, first)
                 IN IF past = first THEN JNull
                    ELSE JStr(SubSeq(hint, first, past - 1))

\* user_text.split("|", 1)[1].strip()
HintOf(user_text) ==
    LET bar == CHOOSE i \in 1..Len(user_text) :
                   /\ user_text[i] = "|"
                   /\ \A j \in 1..(i - 1) : user_text[j] /= "|"
    IN Strip(SubSeq(user_text, bar + 1, Len(user_text)))

IsTrackEntryAny(t) == TRUE

\* t.get("type_", "track") == "track"
IsTrackEntry(t) ==
    LET ty == GetDefault(t, "type_", JStr(W_track))
    IN ty.t = "str" /\ ty.v = W_track

\* [t for t in (data.get("tracklist") or []) if ...]
TrackEntries(d) ==
    SelectSeq(Or(Get(d, "tracklist"), JList(<<>>)).v, IsTrackEntry)

RECURSIVE NameMatch(_, _)
\* for t in tracks: if h in (t.get("title", "").lower()): return t.get("title")
NameMatch(tracks, h) ==
    IF tracks = <<>> THEN JNull
    ELSE LET title == GetDefault(Head(tracks), "title", JStr(<<>>))
         IN IF title.t /= "str" THEN Raised  \* None.lower(): AttributeError
            ELSE IF Contains(Lower(title.v), h) THEN Get(Head(tracks), "title")
            ELSE NameMatch(Tail(tracks), h)

\* the index branch: the title at idx, or NoIndexMatch to go on to the names
NoIndexMatch == [t |-> "continue", v |-> <<>>]

IndexMatch(tracks, m) ==
    IF m.t = "str" /\ StrToInt(m.v) - 1 >= 0 /\ StrToInt(m.v) - 1 < Len(tracks)
    THEN Get(tracks[(StrToInt(m.v) - 1) + 1], "title")
    ELSE NoIndexMatch

choose_track(d, user_text) ==
    IF "|" \notin Range(user_text) THEN JNull
    ELSE LET hint == HintOf(user_text)
             tracks == TrackEntries(d)
             byIndex == IndexMatch(tracks, IndexHint(hint))
         IN IF byIndex.t /= "continue" THEN byIndex
            ELSE NameMatch(tracks, Lower(hint))

----------------------------------------------------------------------------
(* build_caption *)

\* the f-string prefixes; an emoji is one character, named by its code point
L_Artist == <<"U+1F3A7"," ","A","r","t","i","s","t"," ",":"," ">>
L_Track == <<"U+1F3B5"," ","T","r","a","c","k"," ","T","i","t","l","e"," ",":"," ">>
L_Album == <<"U+1F4BF"," ","A","l","b","u","m"," ",":"," ">>
L_Producer == <<"U+1F39A"," ","P","r","o","d","u","c","e","r"," ",":"," ">>
L_Engineer == <<"U+1F39B"," ","S","o","u","n","d"," ","E","n","g","i","n","e","e","r"," ",":"," ">>
L_Date == <<"U+1F4C5"," ","D","a","t","e"," ",":"," ">>

\* str(x), x a string or an integer
PyStr(x) == IF x.t = "int" THEN IntToStr(x.v) ELSE x.v

\* ", ".join(a.get("name", "") for a in data.get("artists", []))
ArtistNames(d) ==
    LET artists == GetDefault(d, "artists", JList(<<>>))
    IN IF artists.t /= "list" THEN Raised  \* iterating None: TypeError
       ELSE IF \E i \in 1..Len(artists.v) :
                   GetDefault(artists.v[i], "name", JStr(<<>>)).t /= "str"
       THEN Raised  \* join of a None item: TypeError
       ELSE JStr(Join(<<",", " ">>,
                 [i \in 1..Len(artists.v) |->
                     GetDefault(artists.v[i], "name", JStr(<<>>)).v]))

\* artist = data.get("artists_sort") or ", ".join(...)
ArtistOf(d) ==
    IF Truthy(Get(d, "artists_sort")) THEN Get(d, "artists_sort")
    ELSE ArtistNames(d)

\* album = data.get("title") or ""
AlbumOf(d) == Or(Get(d, "title"), JStr(<<>>))

\* year = str(data.get("year") or "").strip()
YearOf(d) == Strip(PyStr(Or(Get(d, "year"), JStr(<<>>))))

TrackLineAlways(track) ==
    IF track.t = "str" THEN <<L_Track \o track.v>> ELSE <<L_Track>>

\* if track: lines.append(f"... Track Title : {track}")
TrackLine(track) == IF Truthy(track) THEN <<L_Track \o track.v>> ELSE <<>>

\* if producers: lines.append("... Producer : " + ", ".join(producers))
CreditLine(label, names) ==
    IF names /= <<>> THEN <<label \o Join(<<",", " ">>, names)>> ELSE <<>>

DateLineAnyLength(year) ==
    IF year /= <<>>
    THEN <<L_Date \o year
           \o (IF IsDigitStr(year) /\ Len(year) >= 3
               THEN <<" ", "#", year[3], "0", "s">> ELSE <<>>)>>
    ELSE <<>>

\* if year: decade = ...; lines.append(f"... Date : {year}{decade}")
DateLine(year) ==
    IF year /= <<>>
    THEN <<L_Date \o year
           \o (IF IsDigitStr(year) /\ Len(year) = 4
               THEN <<" ", "#", year[3], "0", "s">> ELSE <<>>)>>
    ELSE <<>>

\* if tags: lines.append(tags)
TagsLine(tags) == IF Truthy(tags) THEN <<tags.v>> ELSE <<>>

build_caption(d, user_text) ==
    LET artist == ArtistOf(d)
        album == AlbumOf(d)
        year == YearOf(d)
        track == choose_track(d, user_text)
        producers == extract_roles(Get(d, "extraartists"), ProducerKeywords)
        engineers == extract_roles(Get(d, "extraartists"), EngineerKeywords)
        tags == hashtags(d)
    IN IF Raised \in {artist, track, tags} THEN Raised
       ELSE JStr(Join(<<"\n">>,
                 <<L_Artist \o artist.v>>
                 \o TrackLine(track)
                 \o <<L_Album \o album.v>>
                 \o CreditLine(L_Producer, producers)
                 \o CreditLine(L_Engineer, engineers)
                 \o DateLine(year)
                 \o TagsLine(tags)))

----------------------------------------------------------------------------
(* extract_id *)

W_host == <<"d","i","s","c","o","g","s",".","c","o","m","/">>
W_release == <<"r","e","l","e","a","s","e">>

\* "<word>/(\d+)" matches at p (t lowercased: re.I)
EntityAt(t, p, word) ==
    /\ p + Len(word) + 1 <= Len(t)
    /\ SubSeq(t, p, p + Len(word)) = word \o <<"/">>
    /\ IsDigit(t[p + Len(word) + 1])

Least(S) == CHOOSE i \in S : \A j \in S : i <= j

\* where "<word>/" starts in the match whose "discogs.com/" starts at i, 0 if
\* there is none: "(?:.*?/)?" is tried present first, ".*?" shortest first
\* and never across a line break
EntityFrom(t, i, word) ==
    LET after == i + Len(W_host)
        grouped == {p \in (after + 1)..Len(t) :
                       /\ t[p - 1] = "/"
                       /\ \A k \in after..(p - 2) : t[k] /= "\n"
                       /\ EntityAt(t, p, word)}
    IN IF grouped /= {} THEN Least(grouped)
       ELSE IF EntityAt(t, after, word) THEN after
       ELSE 0

\* RE.search(text): group 1 of the leftmost match, or None
SearchEntity(text, word) ==
    LET t == Lower(text)
        starts == {i \in 1..(Len(t) - Len(W_host) + 1) :
                      /\ SubSeq(t, i, i + Len(W_host) - 1) = W_host
                      /\ EntityFrom(t, i, word) /= 0}
    IN IF starts = {} THEN JNull
       ELSE LET first == EntityFrom(t, Least(starts), word) + Len(word) + 1
            IN JStr(SubSeq(text, first, SkipDigits(text, first) - 1))

extract_id(text) ==
    IF SearchEntity(text, W_release) /= JNull
    THEN [typ |-> JStr(W_release), did |-> SearchEntity(text, W_release)]
    ELSE IF SearchEntity(text, W_master) /= JNull
    THEN [typ |-> JStr(W_master), did |-> SearchEntity(text, W_master)]
    ELSE [typ |-> JNull, did |-> JNull]

----------------------------------------------------------------------------
(* handle *)

TextReply(body) == [kind |-> "text", body |-> body]
PhotoReply(cap) == [kind |-> "photo", body |-> cap]

\* reply_text("Send a valid Discogs release/master URL.")
HelpReply == TextReply(<<"Send a valid Discogs release/master URL.">>)

NoDataReplyAsError == TextReply(<<"Discogs error: ", "None">>)

\* reply_text("Couldn't get data from Discogs.")
NoDataReply == TextReply(<<"Couldn't get data from Discogs.">>)

\* reply_text(f"Discogs error: {e}")
ErrorReply(e) == TextReply(<<"Discogs error: ", e>>)

Call(op, arg, ok) == [op |-> op, arg |-> arg, ok |-> ok]

\* rid = m.get("main_release") or m.get("main_release_id")
MainReleaseOf(m) == Or(Get(m, "main_release"), Get(m, "main_release_id"))

\* img_list = data.get("images") or []
\* img_url = img_list[0].get("uri") if img_list else None
ImageUrlOf(d) ==
    LET img_list == Or(Get(d, "images"), JList(<<>>))
    IN IF Truthy(img_list) THEN Get(img_list.v[1], "uri") ELSE JNull

FallbackNothing(cap) == <<>>

\* except Exception: pass, then reply_text(caption, ...)
Fallback(cap) == <<TextReply(cap)>>

\* handle from the return of the Discogs fetch to the next external call:
\* d is the payload, log the calls made so far
WithData(d, log) ==
    /\ data' = d
    /\ calls' = log
    /\ IF ~Truthy(d)
       THEN /\ sent' = Append(sent, NoDataReply)
            /\ caption' = caption
            /\ pc' = "done"
       ELSE LET cap == build_caption(d, msg)
            IN /\ caption' = cap
               /\ IF cap = Raised
                  THEN sent' = sent /\ pc' = "raised"
                  ELSE IF Truthy(ImageUrlOf(d))
                  THEN sent' = sent /\ pc' = "get_image"
                  ELSE sent' = Append(sent, TextReply(cap.v)) /\ pc' = "done"

\* except Exception as e: reply_text(f"Discogs error: {e}"); return
FetchFailed(e, log) ==
    /\ calls' = log
    /\ sent' = Append(sent, ErrorReply(e))
    /\ pc' = "done"
    /\ UNCHANGED <<data, caption>>

----------------------------------------------------------------------------
(* The handler is idle while a pure function is checked, and conversely. *)

NoCall == [fn |-> "none"]

HandlerIdle ==
    /\ msg = <<>>
    /\ typ = JNull
    /\ did = JNull
    /\ master = JNull
    /\ data = JNull
    /\ caption = JNull
    /\ sent = <<>>
    /\ calls = <<>>

HandlerVars == <<msg, typ, did, master, data, caption, sent, calls>>

----------------------------------------------------------------------------
(* Inputs of extract_roles *)

MaxCredits == 3

SeqsUpTo(S, n) == UNION {[1..k -> S] : k \in 0..n}

S_Producer == <<"P","r","o","d","u","c","e","r">>
S_MixedBy == <<"M","i","x","e","d"," ","B","y">>
S_CoProducerMastered ==
    <<"C","o","-","p","r","o","d","u","c","e","r",",",
      " ","M","a","s","t","e","r","e","d">>
S_Lyrics == <<"L","y","r","i","c","s">>
S_Al == <<"A","l">>
S_Bo == <<"B","o">>

Credit(role, name) == JDict(("role" :> role) @@ ("name" :> name))

CreditEntries ==
    {Credit(JStr(S_Producer), JStr(S_Al)),
     Credit(JStr(S_Producer), JStr(S_Bo)),
     Credit(JStr(S_MixedBy), JStr(S_Al)),
     Credit(JStr(S_MixedBy), JNull),
     Credit(JStr(S_CoProducerMastered), JStr(S_Bo)),
     Credit(JStr(S_Lyrics), JStr(S_Bo)),
     Credit(JNull, JStr(S_Al)),
     JDict("name" :> JStr(S_Al)),
     JDict("role" :> JStr(S_Producer))}

ExtraArtistsValues ==
    {JNull} \cup {JList(l) : l \in SeqsUpTo(CreditEntries, MaxCredits)}

InitRoles ==
    /\ pc = "call"
    /\ args \in {[fn |-> "extract_roles", extra |-> e, keywords |-> k] :
                    e \in ExtraArtistsValues,
                    k \in {ProducerKeywords, EngineerKeywords}}
    /\ ret = JNull
    /\ HandlerIdle

CallExtractRoles ==
    /\ pc = "call"
    /\ args.fn = "extract_roles"
    /\ ret' = JList(extract_roles(args.extra, args.keywords))
    /\ pc' = "return"
    /\ UNCHANGED <<args, HandlerVars>>

NextRoles == CallExtractRoles

SpecRoles == InitRoles /\ [][NextRoles]_vars

----------------------------------------------------------------------------
(* C6 *)

RolesReturned == pc = "return" /\ args.fn = "extract_roles"

MatchingIdx(extra, keywords) ==
    IF extra.t = "list"
    THEN {i \in 1..Len(extra.v) : RoleMatches(extra.v[i], keywords)}
    ELSE {}

FirstMatchOf(name, extra, keywords) ==
    LET idx == {i \in MatchingIdx(extra, keywords) : NameOf(extra.v[i]) = name}
    IN CHOOSE i \in idx : \A j \in idx : i <= j

\* C6: extract_roles returns no name twice, returns exactly the names of the
\* entries whose lowercased role contains a keyword, in the order of each
\* name's first matching entry; an absent or empty input gives the empty list.
C6_RolesDedupOrdered ==
    RolesReturned =>
        LET out == ret.v
            extra == args.extra
            kw == args.keywords
        IN /\ \A i, j \in 1..Len(out) : i /= j => out[i] /= out[j]
           /\ Range(out) = {NameOf(extra.v[i]) : i \in MatchingIdx(extra, kw)}
           /\ \A i, j \in 1..Len(out) :
                 i < j => FirstMatchOf(out[i], extra, kw)
                            < FirstMatchOf(out[j], extra, kw)
           /\ (extra.t = "null" \/ extra.v = <<>>) => out = <<>>

\* a name credited twice under matching roles, with another name in between
C6_Witness ==
    /\ RolesReturned
    /\ Len(args.extra.v) = 3
    /\ \A i \in 1..3 : RoleMatches(args.extra.v[i], args.keywords)
    /\ NameOf(args.extra.v[1]) = NameOf(args.extra.v[3])
    /\ NameOf(args.extra.v[1]) /= NameOf(args.extra.v[2])
    /\ Len(ret.v) = 2

----------------------------------------------------------------------------
(* Inputs of hashtags *)

MaxTags == 2

S_HipHop == <<"H","i","p"," ","H","o","p">>
S_JazzFunk == <<"J","a","z","z","-","F","u","n","k">>

TagStrings ==
    {JStr(S_HipHop), JStr(S_JazzFunk), JStr(<<>>), JStr(<<" ">>),
     JStr(<<"+">>), JStr(<<" ","&"," ">>), JNull}

TagLists == {JNull} \cup {JList(l) : l \in SeqsUpTo(TagStrings, MaxTags)}

TagRecords ==
    {JDict(g @@ st) :
        g \in {NoKeys} \cup {"genres" :> x : x \in TagLists},
        st \in {NoKeys} \cup {"styles" :> x : x \in TagLists}}

InitTags ==
    /\ pc = "call"
    /\ args \in {[fn |-> "hashtags", data |-> d] : d \in TagRecords}
    /\ ret = JNull
    /\ HandlerIdle

CallHashtags ==
    /\ pc = "call"
    /\ args.fn = "hashtags"
    /\ ret' = hashtags(args.data)
    /\ pc' = "return"
    /\ UNCHANGED <<args, HandlerVars>>

NextTags == CallHashtags

SpecTags == InitTags /\ [][NextTags]_vars

----------------------------------------------------------------------------
(* C3 *)

RECURSIVE Split(_, _)
\* s.split(sep), sep one character
Split(s, sep) ==
    IF \A i \in 1..Len(s) : s[i] /= sep THEN <<s>>
    ELSE LET k == CHOOSE i \in 1..Len(s) :
                    s[i] = sep /\ \A j \in 1..(i - 1) : s[j] /= sep
         IN <<SubSeq(s, 1, k - 1)>> \o Split(SubSeq(s, k + 1, Len(s)), sep)

IsHashtag(tok) ==
    /\ Len(tok) >= 2
    /\ tok[1] = "#"
    /\ \A i \in 2..Len(tok) : IsAlnum(tok[i])

NonBlankTagEntries(d) ==
    {i \in 1..Len(TagEntries(d)) :
        TagEntries(d)[i].t = "str" /\ Strip(TagEntries(d)[i].v) /= <<>>}

\* C3: the string hashtags returns is empty or single-space-joined tokens,
\* each "#" followed by a non-empty run of letters and digits; no token is
\* a bare "#", and entries blank after trimming give no token.
C3_TagsWellFormed ==
    (pc = "return" /\ args.fn = "hashtags" /\ ret.t = "str") =>
        /\ (NonBlankTagEntries(args.data) = {} => ret.v = <<>>)
        /\ (ret.v /= <<>> =>
               \A i \in 1..Len(Split(ret.v, " ")) :
                   IsHashtag(Split(ret.v, " ")[i]))

----------------------------------------------------------------------------
(* Inputs of choose_track *)

MaxTracks == 3
MaxHintIndex == 4

S_Moon == <<"M","o","o","n">>
S_Sun == <<"S","u","n">>
S_Track9 == <<"T","r","a","c","k",":","9">>
S_heading == <<"h","e","a","d","i","n","g">>

TracklistEntries ==
    {JDict("title" :> JStr(S_Moon)),
     JDict(("title" :> JStr(S_Sun)) @@ ("type_" :> JStr(W_track))),
     JDict(("title" :> JStr(S_Track9)) @@ ("type_" :> JStr(W_track))),
     JDict(("title" :> JStr(S_Moon \o S_Sun)) @@ ("type_" :> JStr(S_heading))),
     JDict(("title" :> JStr(S_Sun)) @@ ("type_" :> JNull)),
     JDict(("title" :> JStr(<<>>)) @@ ("type_" :> JStr(W_track))),
     JDict("title" :> JNull),
     JDict("type_" :> JStr(W_track))}

Tracklists ==
    {JNull} \cup {JList(l) : l \in SeqsUpTo(TracklistEntries, MaxTracks)}

TrackRecords == {JDict(NoKeys)} \cup {JDict("tracklist" :> l) : l \in Tracklists}

\* the message text up to the hint: a stand-in for the URL
S_url == <<"u","r","l">>

Hints ==
    {<<" ">> \o W_track \o <<":">> \o IntToStr(n) : n \in 0..MaxHintIndex}
    \cup {<<"T","R","A","C","K"," ",":"," ","0","2"," ">>,
          <<"t","r","a","c","k",":","9">>,
          <<"t","r","a","c","k",":","1","x">>,
          <<"t","r","a","c","k"," ","1">>,
          <<"t","r","a","c","k",":">>,
          <<" ","m","O","o"," ">>,
          <<"s","u","n","|","x">>,
          <<"s","u","n">>,
          <<"z">>,
          <<>>}

UserTexts == {S_url} \cup {S_url \o <<" ","|">> \o h : h \in Hints}

InitTrack ==
    /\ pc = "call"
    /\ args \in {[fn |-> "choose_track", data |-> d, user_text |-> u] :
                    d \in TrackRecords, u \in UserTexts}
    /\ ret = JNull
    /\ HandlerIdle

CallChooseTrack ==
    /\ pc = "call"
    /\ args.fn = "choose_track"
    /\ ret' = choose_track(args.data, args.user_text)
    /\ pc' = "return"
    /\ UNCHANGED <<args, HandlerVars>>

NextTrack == CallChooseTrack

SpecTrack == InitTrack /\ [][NextTrack]_vars

----------------------------------------------------------------------------
(* C1, C9 *)

TrackReturned == pc = "return" /\ args.fn = "choose_track"

HasHint == "|" \in Range(args.user_text)

\* the number N of an index hint 'track:<N>', -1 when the hint is none
HintNumber ==
    IF HasHint /\ IndexHint(HintOf(args.user_text)).t = "str"
    THEN StrToInt(IndexHint(HintOf(args.user_text)).v)
    ELSE -1

\* positions in the tracklist of the entries whose type is "track"
TrackPositions ==
    LET l == Get(args.data, "tracklist")
    IN IF l.t /= "list" THEN {}
       ELSE {i \in 1..Len(l.v) :
               \/ "type_" \notin DOMAIN l.v[i].v
               \/ l.v[i].v["type_"] = JStr(W_track)}

\* the position of the n-th entry of type "track"
NthTrackPosition(n) ==
    CHOOSE i \in TrackPositions :
        Cardinality({j \in TrackPositions : j <= i}) = n

\* C1: an index hint 'track:<N>' with N outside 1..(number of track
\* entries) never yields a title: it does not fall through to name matching.
C1_OutOfRangeIndexAbsent ==
    (/\ TrackReturned
     /\ HintNumber >= 0
     /\ HintNumber \notin 1..Cardinality(TrackPositions))
        => ret.t /= "str"

\* C9: a returned title is the title of an entry of type "track"; an
\* in-range index hint returns the title of the N-th such entry; without
\* '|' in the user text the result is absent.
C9_OnlyTrackEntries ==
    TrackReturned =>
        LET l == Get(args.data, "tracklist")
        IN /\ (ret.t = "str" =>
                  \E i \in TrackPositions : Get(l.v[i], "title") = ret)
           /\ (HintNumber \in 1..Cardinality(TrackPositions) =>
                  ret = Get(l.v[NthTrackPosition(HintNumber)], "title"))
           /\ (~HasHint => ret = JNull)

\* 'track:2' picks the second track entry, which follows a heading
C9_Witness ==
    /\ TrackReturned
    /\ HintNumber = 2
    /\ Cardinality(TrackPositions) = 2
    /\ 1 \notin TrackPositions
    /\ ret = JStr(S_Sun)

----------------------------------------------------------------------------
(* Inputs of build_caption *)

S_LP == <<"L","P">>

\* marks a key the record does not have
Absent == [t |-> "absent", v |-> <<>>]

Field(key, values) ==
    {IF x.t = "absent" THEN NoKeys ELSE key :> x : x \in values}

YearValues ==
    {Absent, JNull, JInt(0), JInt(7), JInt(94), JInt(987), JInt(1994),
     JInt(2001), JInt(12345), JInt(-123),
     JStr(<<>>), JStr(<<" ">>), JStr(<<" ","1","9","8","7"," ">>),
     JStr(<<"1","9","a","4">>)}

CaptionRecords ==
    {JDict(a @@ b @@ c @@ y @@ t @@ e @@ g @@ st) :
        a \in Field("artists_sort", {Absent, JStr(S_Al)}),
        b \in Field("artists",
                {Absent, JNull,
                 JList(<<JDict("name" :> JStr(S_Al)), JDict(NoKeys),
                         JDict("name" :> JStr(S_Bo))>>),
                 JList(<<JDict("name" :> JNull)>>)}),
        c \in Field("title", {Absent, JStr(S_LP)}),
        y \in Field("year", YearValues),
        t \in Field("tracklist",
                {Absent,
                 JList(<<JDict("title" :> JStr(S_Moon)),
                         JDict(("title" :> JStr(<<>>)) @@ ("type_" :> JStr(W_track)))>>),
                 JList(<<JDict("title" :> JNull)>>)}),
        e \in Field("extraartists",
                {Absent,
                 JList(<<Credit(JStr(S_Producer), JStr(S_Al)),
                         Credit(JStr(S_MixedBy), JStr(S_Bo)),
                         Credit(JStr(S_Producer), JStr(S_Al))>>),
                 JList(<<JDict("role" :> JStr(S_CoProducerMastered))>>)}),
        g \in Field("genres",
                {Absent, JList(<<JStr(S_HipHop), JStr(<<" ">>)>>),
                 JList(<<JNull>>)}),
        st \in Field("styles", {JNull, JList(<<JStr(S_JazzFunk)>>)})}

CaptionTexts ==
    {S_url,
     S_url \o <<" ","|"," ">> \o W_track \o <<":","1">>,
     S_url \o <<" ","|"," ">> \o W_track \o <<":","2">>,
     S_url \o <<" ","|"," ","m","o","o","n">>}

InitCaption ==
    /\ pc = "call"
    /\ args \in {[fn |-> "build_caption", data |-> d, user_text |-> u] :
                    d \in CaptionRecords, u \in CaptionTexts}
    /\ ret = JNull
    /\ HandlerIdle

CallBuildCaption ==
    /\ pc = "call"
    /\ args.fn = "build_caption"
    /\ ret' = build_caption(args.data, args.user_text)
    /\ pc' = "return"
    /\ UNCHANGED <<args, HandlerVars>>

NextCaption == CallBuildCaption

SpecCaption == InitCaption /\ [][NextCaption]_vars

----------------------------------------------------------------------------
(* C2 *)

CaptionReturned == pc = "return" /\ args.fn = "build_caption"

\* C2: build_caption never raises for a record whose optional fields are
\* absent, null or empty: it always returns a caption.
C2_NeverRaises == CaptionReturned => ret.t = "str"

----------------------------------------------------------------------------
(* C5, C10 *)

HasPrefix(line, label) ==
    Len(line) >= Len(label) /\ SubSeq(line, 1, Len(label)) = label

\* the place of a line in the fixed order, 0 for a line of no known kind
LineRank(line) ==
    CASE HasPrefix(line, L_Artist) -> 1
      [] HasPrefix(line, L_Track) -> 2
      [] HasPrefix(line, L_Album) -> 3
      [] HasPrefix(line, L_Producer) -> 4
      [] HasPrefix(line, L_Engineer) -> 5
      [] HasPrefix(line, L_Date) -> 6
      [] HasPrefix(line, <<"#">>) -> 7
      [] OTHER -> 0

CaptionLines == Split(ret.v, "\n")

CaptionRanks ==
    LET lines == CaptionLines
    IN [i \in 1..Len(lines) |-> LineRank(lines[i])]

\* what C10 says but for the Track line
LineStructure(ranks) ==
    /\ \A i \in 1..Len(ranks) : ranks[i] /= 0
    /\ \A i, j \in 1..Len(ranks) : i < j => ranks[i] < ranks[j]
    /\ {1, 3} \subseteq Range(ranks)
    /\ 4 \in Range(ranks) <=>
          extract_roles(Get(args.data, "extraartists"), ProducerKeywords) /= <<>>
    /\ 5 \in Range(ranks) <=>
          extract_roles(Get(args.data, "extraartists"), EngineerKeywords) /= <<>>
    /\ 7 \in Range(ranks) <=> hashtags(args.data).v /= <<>>

SelectedTrack == choose_track(args.data, args.user_text)

YearValue == Get(args.data, "year")

YearString == Strip(PyStr(YearValue))

DateLines ==
    LET lines == CaptionLines
    IN {i \in 1..Len(lines) : HasPrefix(lines[i], L_Date)}

DecadeSuffix ==
    IF Len(YearString) = 4 /\ \A i \in 1..4 : IsDigit(YearString[i])
    THEN <<" ", "#", YearString[3], "0", "s">>
    ELSE <<>>

DateLineAsStated ==
    \A i \in DateLines :
        CaptionLines[i] = L_Date \o YearString \o DecadeSuffix

\* C5 as stated: the Date line is emitted exactly when the year is present
\* and its string conversion is non-blank (for every integer, 0 included);
\* it carries ' #<d>0s' exactly when the year string is 4 digits.
C5_DateLine_Stated ==
    (CaptionReturned /\ ret.t = "str") =>
        /\ DateLines /= {} <=> (YearValue.t /= "null" /\ YearString /= <<>>)
        /\ DateLineAsStated

\* C5 as amended: the Date line is emitted exactly when the year is present,
\* is not 0 and its string conversion is non-blank; the decade suffix as
\* stated.
C5_DateLine ==
    (CaptionReturned /\ ret.t = "str") =>
        /\ DateLines /= {} <=>
              (/\ YearValue.t /= "null"
               /\ YearValue /= JInt(0)
               /\ YearString /= <<>>)
        /\ DateLineAsStated

\* a five-digit year: a Date line without decade suffix
C5_Witness ==
    /\ CaptionReturned
    /\ ret.t = "str"
    /\ YearValue = JInt(12345)
    /\ \E i \in DateLines :
          CaptionLines[i] = L_Date \o <<"1","2","3","4","5">>

----------------------------------------------------------------------------
(* The handler and its environment: incoming updates, Discogs' answers, the
   image server's, and Telegram's to reply_photo.  reply_text is taken to
   deliver: handle has no code for its failure. *)

S_uri == <<"i",".","j","p","g">>

Messages ==
    {JNull,
     JStr(<<"h","i">>),
     JStr(<<" ">> \o W_host \o W_release \o <<"/","1","2"," ">>),
     JStr(<<"w","w","w",".","D","i","s","c","o","g","s",".","c","o","m","/",
            "A","l","-","L","P","/","R","E","L","E","A","S","E","/","7",
            " ","|"," ","t","r","a","c","k",":","1">>),
     JStr(W_host \o W_release \o <<"/","1","/">> \o W_release \o <<"/","2">>),
     JStr(W_host \o W_release \o <<"/">>),
     JStr(W_host \o <<"a","\n","/">> \o W_release \o <<"/","3">>),
     JStr(W_host \o W_master \o <<"/","5">>),
     JStr(W_host \o W_master \o <<"/","5"," ">> \o W_host \o W_release \o <<"/","7">>),
     JStr(W_host \o <<"s","e","l","l","/">> \o W_master \o <<"/","9","|","m","o","o","n">>),
     JStr(W_master \o <<"/","5">>)}

Errors == {"timed out", "404 Client Error"}

ReleasePayloads ==
    {JDict(NoKeys),
     JDict("title" :> JStr(S_LP)),
     JDict(("title" :> JStr(S_LP)) @@ ("images" :> JList(<<>>))),
     JDict(("title" :> JStr(S_LP)) @@ ("images" :> JList(<<JDict(NoKeys)>>))),
     JDict(("title" :> JStr(S_LP))
           @@ ("images" :> JList(<<JDict("uri" :> JNull)>>))),
     JDict(("artists" :> JNull)
           @@ ("images" :> JList(<<JDict("uri" :> JStr(S_uri))>>))),
     JDict(("artists_sort" :> JStr(S_Al)) @@ ("title" :> JStr(S_LP))
           @@ ("year" :> JInt(1994))
           @@ ("tracklist" :> JList(<<JDict("title" :> JStr(S_Moon))>>))
           @@ ("images" :> JList(<<JDict("uri" :> JStr(S_uri)),
                                   JDict("uri" :> JNull)>>)))}

MasterPayloads ==
    {JDict(NoKeys),
     JDict("title" :> JStr(S_LP)),
     JDict("main_release" :> JInt(0)),
     JDict("main_release" :> JInt(7)),
     JDict("main_release_id" :> JInt(8)),
     JDict(("main_release" :> JNull) @@ ("main_release_id" :> JInt(8)))}

InitHandle ==
    /\ pc = "idle"
    /\ args = NoCall
    /\ ret = JNull
    /\ HandlerIdle

RecognizedAlways(id) == TRUE

\* if not did: ... return
Recognized(id) == Truthy(id.did)

\* handle up to the Discogs fetch
HandleUpdate ==
    /\ pc \in {"idle", "done", "raised"}
    /\ \E text \in Messages :
          \* msg = (update.effective_message.text or "").strip()
          LET m == Strip(Or(text, JStr(<<>>)).v)
              id == extract_id(m)
          IN /\ msg' = m
             /\ typ' = id.typ
             /\ did' = id.did
             /\ IF Recognized(id)
                THEN sent' = <<>> /\ pc' = "fetch"
                ELSE sent' = <<HelpReply>> /\ pc' = "done"
    /\ master' = JNull
    /\ data' = JNull
    /\ caption' = JNull
    /\ calls' = <<>>
    /\ UNCHANGED <<args, ret>>

\* data = get_release(did)
FetchRelease ==
    /\ pc = "fetch"
    /\ typ = JStr(W_release)
    /\ \/ \E e \in Errors :
             FetchFailed(e, Append(calls, Call("get_release", did.v, FALSE)))
       \/ \E d \in ReleasePayloads :
             WithData(d, Append(calls, Call("get_release", did.v, TRUE)))
    /\ UNCHANGED <<args, ret, msg, typ, did, master>>

\* data = get_master(did), up to its return or its get_release(rid)
FetchMaster ==
    /\ pc = "fetch"
    /\ typ /= JStr(W_release)
    /\ \/ /\ \E e \in Errors :
                FetchFailed(e, Append(calls, Call("get_master", did.v, FALSE)))
          /\ UNCHANGED master
       \/ \E m \in MasterPayloads :
             /\ master' = m
             /\ IF ~Truthy(MainReleaseOf(m))
                THEN WithData(JNull, Append(calls, Call("get_master", did.v, TRUE)))
                ELSE /\ calls' = Append(calls, Call("get_master", did.v, TRUE))
                     /\ pc' = "get_main_release"
                     /\ UNCHANGED <<data, caption, sent>>
    /\ UNCHANGED <<args, ret, msg, typ, did>>

\* return get_release(rid)
FetchMainRelease ==
    /\ pc = "get_main_release"
    /\ LET rid == PyStr(MainReleaseOf(master))
       IN \/ \E e \in Errors :
                FetchFailed(e, Append(calls, Call("get_release", rid, FALSE)))
          \/ \E d \in ReleasePayloads :
                WithData(d, Append(calls, Call("get_release", rid, TRUE)))
    /\ UNCHANGED <<args, ret, msg, typ, did, master>>

\* img = requests.get(img_url, timeout=15).content
DownloadImage ==
    /\ pc = "get_image"
    /\ \/ /\ calls' = Append(calls, Call("get_image", ImageUrlOf(data).v, TRUE))
          /\ pc' = "reply_photo"
          /\ sent' = sent
       \/ /\ calls' = Append(calls, Call("get_image", ImageUrlOf(data).v, FALSE))
          /\ sent' = sent \o Fallback(caption.v)
          /\ pc' = "done"
    /\ UNCHANGED <<args, ret, msg, typ, did, master, data, caption>>

\* await reply_photo(photo=..., caption=caption, ...); return
ReplyPhoto ==
    /\ pc = "reply_photo"
    /\ \/ /\ calls' = Append(calls, Call("reply_photo", ImageUrlOf(data).v, TRUE))
          /\ sent' = Append(sent, PhotoReply(caption.v))
       \/ /\ calls' = Append(calls, Call("reply_photo", ImageUrlOf(data).v, FALSE))
          /\ sent' = sent \o Fallback(caption.v)
    /\ pc' = "done"
    /\ UNCHANGED <<args, ret, msg, typ, did, master, data, caption>>

Next ==
    \/ HandleUpdate
    \/ FetchRelease
    \/ FetchMaster
    \/ FetchMainRelease
    \/ DownloadImage
    \/ ReplyPhoto

Spec == InitHandle /\ [][Next]_vars

----------------------------------------------------------------------------
(* C4, C7, C8 *)

CallsOf(op) == {i \in 1..Len(calls) : calls[i].op = op}

FailedCallsOf(op) == {i \in CallsOf(op) : ~calls[i].ok}

\* the master payload has neither a main_release nor a main_release_id
UnresolvableMaster ==
    /\ typ = JStr(W_master)
    /\ master.t = "dict"
    /\ {"main_release", "main_release_id"} \cap DOMAIN master.v = {}

\* the messages a failed release or master fetch sends
FetchFailureMessages ==
    {[kind |-> "text", body |-> <<"Discogs error: ", e>>] : e \in Errors}

\* C4 as stated: for a master with neither main_release nor
\* main_release_id no release is fetched, and the message sent is the one
\* sent when the fetch itself fails.
C4_UnresolvableMaster_Stated ==
    UnresolvableMaster =>
        /\ CallsOf("get_release") = {}
        /\ Len(sent) = 1
        /\ sent[1] \in FetchFailureMessages

\* C4 as amended: for such a master no release is fetched and the one
\* message sent is the fixed text "Couldn't get data from Discogs.", which
\* is not the message of a failed fetch ("Discogs error: <exception>").
C4_UnresolvableMaster ==
    /\ UnresolvableMaster =>
          /\ pc = "done"
          /\ CallsOf("get_release") = {}
          /\ sent = <<[kind |-> "text",
                       body |-> <<"Couldn't get data from Discogs.">>]>>
          /\ sent[1] \notin FetchFailureMessages
    /\ (FailedCallsOf("get_release") \cup FailedCallsOf("get_master")) /= {} =>
          /\ Len(sent) = 1
          /\ sent[1] \in FetchFailureMessages

\* a master without main release has been answered
C4_Witness ==
    /\ UnresolvableMaster
    /\ pc = "done"
    /\ Len(calls) = 1
    /\ calls[1] = [op |-> "get_master", arg |-> <<"5">>, ok |-> TRUE]
    /\ Len(sent) = 1

ImageFailed ==
    (FailedCallsOf("get_image") \cup FailedCallsOf("reply_photo")) /= {}

\* C7: when the image download or the photo reply fails, the caption is
\* sent as a text message; whenever an image was tried, the user gets the
\* caption exactly once, as photo caption or as text, and no error message.
C7_ImageFallback ==
    /\ ImageFailed =>
          /\ pc = "done"
          /\ sent = <<[kind |-> "text", body |-> caption.v]>>
    /\ (pc = "done" /\ CallsOf("get_image") /= {}) =>
          /\ caption.t = "str"
          /\ Len(sent) = 1
          /\ sent[1].body = caption.v
          /\ sent[1].kind = (IF ImageFailed THEN "text" ELSE "photo")

\* the image was downloaded, the photo reply failed, the text was sent
C7_Witness ==
    /\ pc = "done"
    /\ FailedCallsOf("get_image") = {}
    /\ FailedCallsOf("reply_photo") /= {}
    /\ sent = <<[kind |-> "text", body |-> caption.v]>>
    /\ caption.t = "str"

\* the running invocation found no release or master URL in the message
NoReference == pc /= "idle" /\ extract_id(msg).did = JNull

\* C8: when extract_id finds neither URL, the handler sends the one help
\* message and does nothing else: no fetch, no caption, no image download,
\* no second message.
C8_UnrecognizedReference ==
    NoReference =>
        /\ pc = "done"
        /\ sent = <<[kind |-> "text",
                     body |-> <<"Send a valid Discogs release/master URL.">>]>>
        /\ calls = <<>>
        /\ master = JNull
        /\ data = JNull
        /\ caption = JNull

\* a message with "discogs.com/" and "release/" but no id was rejected
C8_Witness ==
    /\ NoReference
    /\ msg = W_host \o W_release \o <<"/">>
    /\ Len(sent) = 1

====
